---- MODULE Spec2Model ----
(***************************************************************************)
(* Model of driver/spi_flash.c: the SPI flash image loader.                *)
(*                                                                         *)
(* Spec    models spi_flash_loadimage() and everything it calls, as built  *)
(*         with CONFIG_DATAFLASH_RECOVERY (optional), CONFIG_LOAD_LINUX    *)
(*         and CONFIG_OF_LIBFDT.                                           *)
(* SpecFn  applies the static helper functions (read_array, df_desc_init,  *)
(*         the part-table lookup) to inputs drawn from bounded sets.       *)
(*                                                                         *)
(* 32-bit unsigned values that may exceed 2^31 are kept as words: tuples   *)
(* of four bytes, most significant first.                                  *)
(***************************************************************************)
EXTENDS Integers, Sequences, FiniteSets, TLC

VARIABLES
    pc,          \* position in spi_flash_loadimage / the function applied
    df_desc,     \* struct dataflash_descriptor df_descriptor
    dev_id,      \* unsigned char dev_id[5] as answered by the part
    calls,       \* the calls that returned: function, value, bus count
    pin_value,   \* what pio_get_value() delivered, -1 before it is read
    timeout,     \* the poll counter of dataflash_page0_erase_at25
    image,       \* struct image_info: offsets, destinations, lengths
    ret,         \* value returned by spi_flash_loadimage
    spi_enabled, \* at91_spi_enable() .. at91_spi_disable()
    log,         \* bus transactions issued so far, oldest first
    polls,       \* status reads issued by the erase poll loop
    cfg,         \* build options and link-time layout
    fn,          \* SpecFn: inputs and result of the function applied
    erase_status, \* the status byte the erase poll read last
    bus,         \* SpecSend: the calls made to the SPI controller
    send         \* SpecSend: the running call of df_send_command

vars == <<pc, df_desc, dev_id, calls, pin_value, timeout, image, ret,
          spi_enabled, log, polls, cfg, fn, erase_status, bus, send>>

(***************************************************************************)
(* Program constants                                                       *)
(***************************************************************************)
CMD_READ_DEV_ID == 159          \* 0x9f
CMD_READ_ARRAY_FAST == 11       \* 0x0b
MANUFACTURER_ID_ATMEL == 31     \* 0x1f
MANUFACTURER_ID_MICRON == 32    \* 0x20
MANUFACTURER_ID_WINBOND == 239  \* 0xef
DF_FAMILY_AT26F == 0            \* 0x00
DF_FAMILY_AT45 == 32            \* 0x20
DF_FAMILY_AT26DF == 64          \* 0x40
DF_FAMILY_N25Q == 160           \* 0xA0
DF_FAMILY_M25P == 32            \* 0x20
DENSITY_AT45DB011D == 12        \* 0x0C
DENSITY_AT45DB021D == 20        \* 0x14
DENSITY_AT45DB041D == 28        \* 0x1C
DENSITY_AT45DB081D == 36        \* 0x24
DENSITY_AT45DB161D == 44        \* 0x2C
DENSITY_AT45DB321D == 52        \* 0x34
DENSITY_AT45DB642D == 60        \* 0x3C
DENSITY_AT45DB1282D == 16       \* 0x10
DENSITY_AT45DB2562D == 24       \* 0x18
DENSITY_AT45DB5122D == 32       \* 0x20
WINBOND_W25Q128JV == 64         \* 0x40
CMD_READ_STATUS_AT45 == 215     \* 0xd7
STATUS_PAGE_SIZE_AT45 == 1      \* 1 << 0
STATUS_READY_AT45 == 128        \* 1 << 7
CMD_ERASE_BLOCK4K_AT25 == 32    \* 0x20
CMD_WRITE_ENABLE_AT25 == 6      \* 0x06
CMD_READ_STATUS_AT25 == 5       \* 0x05
CMD_WRITE_STATUS_AT25 == 1      \* 0x01
CMD_ERASE_PAGE_AT45 == 129      \* 0x81
STATUS_READY_AT25 == 1          \* 1 << 0
STATUS_SWP_AT25 == 12           \* 3 << 2
STATUS_SPRL_AT25 == 128         \* 1 << 7
SPI_NOR_MAX_ID_LEN == 6
DevIdLen == 5                   \* unsigned char dev_id[5]
PollTimeout == 1000             \* unsigned int timeout = 1000
AddrWidthPages == 16384         \* if (df_desc->pages > 16384)
SizeofFlashInfo == 28           \* sizeof(struct flash_info), 32-bit ARM

(***************************************************************************)
(* Bytes and 32-bit words                                                  *)
(***************************************************************************)
RECURSIVE BitAnd(_, _)
\* a & b on non-negative integers
BitAnd(a, b) ==
    IF a = 0 \/ b = 0 THEN 0
    ELSE (a % 2) * (b % 2) + 2 * BitAnd(a \div 2, b \div 2)

RECURSIVE BitOr(_, _)
\* a | b on non-negative integers
BitOr(a, b) ==
    IF a = 0 THEN b
    ELSE IF b = 0 THEN a
    ELSE (IF a % 2 = 1 \/ b % 2 = 1 THEN 1 ELSE 0)
         + 2 * BitOr(a \div 2, b \div 2)

\* (unsigned int) n for 0 <= n < 2^31, as <<bits 31..24, 23..16, 15..8, 7..0>>
W32(n) == << (n \div 16777216) % 256, (n \div 65536) % 256,
             (n \div 256) % 256, n % 256 >>

ZeroW == <<0, 0, 0, 0>>

\* w << 1 in 32 bits
ShlW1(w) == << (2 * w[1] + w[2] \div 128) % 256,
               (2 * w[2] + w[3] \div 128) % 256,
               (2 * w[3] + w[4] \div 128) % 256,
               (2 * w[4]) % 256 >>

RECURSIVE ShlW(_, _)
\* w << k in 32 bits, 0 <= k < 32
ShlW(w, k) == IF k = 0 THEN w ELSE ShlW(ShlW1(w), k - 1)

\* a + b in 32 bits
AddW(a, b) ==
    LET s4 == a[4] + b[4]
        s3 == a[3] + b[3] + s4 \div 256
        s2 == a[2] + b[2] + s3 \div 256
        s1 == a[1] + b[1] + s2 \div 256
    IN  << s1 % 256, s2 % 256, s3 % 256, s4 % 256 >>

\* a | b in 32 bits
OrW(a, b) == << BitOr(a[1], b[1]), BitOr(a[2], b[2]),
                BitOr(a[3], b[3]), BitOr(a[4], b[4]) >>

(***************************************************************************)
(* The part table                                                          *)
(***************************************************************************)
\* #define INFO(_name, _jedec_id, _ext_id, _sector_size, _n_sectors, _flags)
INFO(name, jedec_id, ext_id, sector_size, n_sectors) ==
    [ name        |-> name,
      id          |-> << (jedec_id \div 65536) % 256, (jedec_id \div 256) % 256,
                         jedec_id % 256,
                         (ext_id \div 256) % 256, ext_id % 256, 0 >>,
      id_len      |-> IF jedec_id = 0 THEN 0
                      ELSE 3 + (IF ext_id # 0 THEN 2 ELSE 0),
      sector_size |-> sector_size,
      n_sectors   |-> n_sectors,
      page_size   |-> 256 ]

\* #define INFO6(_name, _jedec_id, _ext_id, _sector_size, _n_sectors, _flags)
INFO6(name, jedec_id, ext_id, sector_size, n_sectors) ==
    [ name        |-> name,
      id          |-> << (jedec_id \div 65536) % 256, (jedec_id \div 256) % 256,
                         jedec_id % 256,
                         (ext_id \div 65536) % 256, (ext_id \div 256) % 256,
                         ext_id % 256 >>,
      id_len      |-> 6,
      sector_size |-> sector_size,
      n_sectors   |-> n_sectors,
      page_size   |-> 256 ]

\* The terminating entry { }: every field zero, name NULL (here "").
Sentinel ==
    [ name |-> "", id |-> <<0, 0, 0, 0, 0, 0>>, id_len |-> 0,
      sector_size |-> 0, n_sectors |-> 0, page_size |-> 0 ]

\* const struct flash_info spi_nor_ids[], for a build with
\* CONFIG_SPI_FLASH_ATMEL, _STMICRO, _WINBOND and _CUSTOM (custom ID 0);
\* a selection of the entries of each section, in table order.
spi_nor_ids ==
    << INFO("at26df321",  2049792,  0, 65536, 64),        \* 0x1f4700
       INFO("at45db011d", 2040320,  0, 65536, 4),         \* 0x1f2200
       INFO("at45db641d", 2041856,  0, 65536, 128),       \* 0x1f2800
       INFO6("mt25ql256a", 2144793, 1065984, 65536, 512), \* 0x20ba19 0x104400
       INFO("n25q256a",   2144793,  0, 65536, 512),       \* 0x20ba19
       INFO("mt25qu02g",  2145058,  0, 65536, 4096),      \* 0x20bb22
       INFO("w25q128jv",  15691800, 0, 65536, 256),       \* 0xef7018
       INFO("w25q128",    15679512, 0, 65536, 256),       \* 0xef4018
       INFO("custom",     0,        0, 65536, 64),        \* custom, ID 0
       Sentinel >>

\* (unsigned int) &spi_nor_ids[i-1], the table being linked at base
InfoAddress(base, i) == base + (i - 1) * SizeofFlashInfo

\* dev_id[] followed by the byte that lies behind it on the stack
IdBuffer(id, behind) == id \o <<behind>>

\* !memcmp(info->id, dev_id, info->id_len); a length above 5 reads behind
\* dev_id[]
IdEqual(info, id, behind) ==
    \A k \in 1..info.id_len : info.id[k] = IdBuffer(id, behind)[k]

RECURSIVE LookupFrom(_, _, _)
\* for (; info->name; info++) if (info->id_len) if (!memcmp(...)) return
\* the index of the entry that ends the loop, 0 when the sentinel ends it
LookupFrom(i, id, behind) ==
    IF spi_nor_ids[i].name = "" THEN 0
    ELSE IF spi_nor_ids[i].id_len # 0 /\ IdEqual(spi_nor_ids[i], id, behind)
         THEN i
         ELSE LookupFrom(i + 1, id, behind)

(***************************************************************************)
(* struct dataflash_descriptor and its initialisers                        *)
(***************************************************************************)
\* memset(df_desc, 0, sizeof(*df_desc))
ZeroDesc ==
    [ family |-> 0, pages |-> 0, page_size |-> 0, page_offset |-> 0,
      is_power_2 |-> 0, is_spinor |-> 0 ]

w_25q128_desc_init(d) ==
    [ r |-> 0, txs |-> << >>,
      d |-> [d EXCEPT !.pages = 346, !.page_size = 256, !.page_offset = 0,
                      !.is_spinor = 1] ]

df_n25q_desc_init(d) ==
    [ r |-> 0, txs |-> << >>,
      d |-> [d EXCEPT !.pages = 16384, !.page_size = 256, !.page_offset = 0,
                      !.is_spinor = 1] ]

\* df_read_status_at45() as a bus transaction
TxReadStatusAt45 == [ cmd |-> << CMD_READ_STATUS_AT45 >>, data_len |-> 1 ]

\* As df_at45_desc_init, the default case falling out of the switch
df_at45_desc_init_NoDefault(d, status) ==
    [ r   |-> 0,
      txs |-> << TxReadStatusAt45 >>,
      d   |-> [d EXCEPT !.is_power_2 =
                  IF BitAnd(status, STATUS_PAGE_SIZE_AT45) # 0 THEN 1 ELSE 0] ]

\* As df_at45_desc_init, the AT45DB021D case a copy of the AT45DB011D case
df_at45_desc_init_CopiedCase(d, status) ==
    LET d1 == [d EXCEPT !.is_power_2 =
                   IF BitAnd(status, STATUS_PAGE_SIZE_AT45) # 0 THEN 1 ELSE 0]
        density == BitAnd(status, 60)
        geo(p, s, o) == [ r |-> 0, txs |-> << TxReadStatusAt45 >>,
                          d |-> [d1 EXCEPT !.pages = p, !.page_size = s,
                                           !.page_offset = o] ]
    IN  CASE density = DENSITY_AT45DB011D -> geo(512, 264, 9)
          [] density = DENSITY_AT45DB021D -> geo(512, 264, 9)
          [] density = DENSITY_AT45DB041D -> geo(2048, 264, 9)
          [] density = DENSITY_AT45DB081D -> geo(4096, 264, 9)
          [] density = DENSITY_AT45DB161D -> geo(4096, 528, 10)
          [] density = DENSITY_AT45DB321D -> geo(8192, 528, 10)
          [] density = DENSITY_AT45DB642D -> geo(8192, 1056, 11)
          [] OTHER -> [ r |-> -1, txs |-> << TxReadStatusAt45 >>, d |-> d1 ]

\* status is the byte df_read_status_at45() delivered
df_at45_desc_init(d, status) ==
    LET d1 == [d EXCEPT !.is_power_2 =
                   IF BitAnd(status, STATUS_PAGE_SIZE_AT45) # 0 THEN 1 ELSE 0]
        density == BitAnd(status, 60)
        geo(p, s, o) == [ r |-> 0, txs |-> << TxReadStatusAt45 >>,
                          d |-> [d1 EXCEPT !.pages = p, !.page_size = s,
                                           !.page_offset = o] ]
    IN  CASE density = DENSITY_AT45DB011D -> geo(512, 264, 9)
          [] density = DENSITY_AT45DB021D -> geo(1024, 264, 9)
          [] density = DENSITY_AT45DB041D -> geo(2048, 264, 9)
          [] density = DENSITY_AT45DB081D -> geo(4096, 264, 9)
          [] density = DENSITY_AT45DB161D -> geo(4096, 528, 10)
          [] density = DENSITY_AT45DB321D -> geo(8192, 528, 10)
          [] density = DENSITY_AT45DB642D -> geo(8192, 1056, 11)
          [] OTHER -> [ r |-> -1, txs |-> << TxReadStatusAt45 >>, d |-> d1 ]

df_at25_desc_init(d) ==
    [ r |-> 0, txs |-> << >>,
      d |-> [d EXCEPT !.is_power_2 = 1, !.pages = 16384, !.page_size = 256,
                      !.page_offset = 0] ]

df_desc_init(d, vendor, family, status) ==
    LET d0 == [d EXCEPT !.family = family]
    IN  CASE vendor = MANUFACTURER_ID_ATMEL ->
               IF family = DF_FAMILY_AT26F \/ family = DF_FAMILY_AT26DF
               THEN df_at25_desc_init(d0)
               ELSE IF family = DF_FAMILY_AT45
                    THEN df_at45_desc_init(d0, status)
                    ELSE [ r |-> -1, txs |-> << >>, d |-> d0 ]
          [] vendor = MANUFACTURER_ID_MICRON ->
               IF family = DF_FAMILY_M25P
               THEN df_n25q_desc_init(d0)
               ELSE IF family = DF_FAMILY_N25Q
                    THEN df_n25q_desc_init(d0)
                    ELSE [ r |-> -1, txs |-> << >>, d |-> d0 ]
          [] vendor = MANUFACTURER_ID_WINBOND ->
               IF family = WINBOND_W25Q128JV
               THEN w_25q128_desc_init(d0)
               ELSE [ r |-> -1, txs |-> << >>, d |-> d0 ]
          [] OTHER -> [ r |-> -1, txs |-> << >>, d |-> d0 ]

\* dataflash_probe_atmel() after the ID read: the table scan, then return 1
\* (the legacy dispatch through df_desc_init is commented out)
dataflash_probe_atmel(d, id, behind, base) ==
    LET i == LookupFrom(1, id, behind)
    IN  IF i # 0
        THEN [ r |-> 0,
               d |-> [d EXCEPT !.pages = spi_nor_ids[i].n_sectors,
                               !.page_size = spi_nor_ids[i].page_size,
                               !.page_offset = InfoAddress(base, i)] ]
        ELSE [ r |-> 1, d |-> d ]

(***************************************************************************)
(* The transaction primitive and the read path                             *)
(***************************************************************************)
\* A call that returned r when n transactions had been put on the bus
Returned(f, r, n) == [ f |-> f, r |-> r, at |-> n ]

\* One bus transaction: the command bytes shifted out, then data_len bytes
Tx(cmd, data_len) == [ cmd |-> cmd, data_len |-> data_len ]

\* As df_send_command, the data buffer not tested
df_send_command_NoDataCheck(cmd_null, cmd_len, data_null, data_len) ==
    IF cmd_null THEN -1
    ELSE IF cmd_len = 0 THEN -1
    ELSE 0

\* df_send_command(): the value returned; the bus is used iff it is 0
df_send_command(cmd_null, cmd_len, data_null, data_len) ==
    IF cmd_null THEN -1
    ELSE IF cmd_len = 0 THEN -1
    ELSE IF data_len # 0 /\ data_null THEN -1
    ELSE 0

\* The transactions a df_send_command() call with a command puts on the bus
SendTx(cmd, data_null, data_len) ==
    IF df_send_command(FALSE, Len(cmd), data_null, data_len) = 0
    THEN << Tx(cmd, data_len) >>
    ELSE << >>

\* x << s on unsigned int: a shift count of 32 or more is undefined; the
\* ARM register shift gives 0, a masking shifter gives x << (s % 32)
ShiftLeft(x, s) ==
    IF s < 32 THEN { ShlW(x, s) } ELSE { ZeroW, ShlW(x, s % 32) }

\* As DataflashAddress, with the page/byte split taken for every descriptor
DataflashAddress_AlwaysSplit(d, offset) ==
    LET page_addr == offset \div d.page_size
        byte_addr == offset % d.page_size
    IN  { AddW(sh, W32(byte_addr)) :
              sh \in ShiftLeft(W32(page_addr), d.page_offset) }

\* dataflash_read_array(): the values `address` may take
DataflashAddress(d, offset) ==
    IF d.is_power_2 = 0
    THEN LET page_addr == offset \div d.page_size
             byte_addr == offset % d.page_size
         IN  { AddW(sh, W32(byte_addr)) :
                   sh \in ShiftLeft(W32(page_addr), d.page_offset) }
    ELSE { W32(offset) }

\* dataflash_read_array(): cmd[0..4] for an address
DataflashCmd(d, address) ==
    IF d.pages > AddrWidthPages
    THEN << CMD_READ_ARRAY_FAST,
            address[1], address[2], address[3], address[4] >>
    ELSE << CMD_READ_ARRAY_FAST, address[2], address[3], address[4], 0 >>

\* Values an unsigned char that was never written may hold
UninitBytes == { 0, 165, 255 }

\* spinor_read_array(): cmd[0..4]; cmd[4] is never written
SpinorCmd(address, junk) ==
    << CMD_READ_ARRAY_FAST, address[2], address[3], address[4], junk >>

dataflash_read_array(d, offset, len, buf_null) ==
    { [ r       |-> IF SendTx(DataflashCmd(d, a), buf_null, len) = << >>
                    THEN -1 ELSE 0,
        address |-> a,
        txs     |-> SendTx(DataflashCmd(d, a), buf_null, len) ] :
      a \in DataflashAddress(d, offset) }

spinor_read_array(d, offset, len, buf_null) ==
    { [ r       |-> IF SendTx(SpinorCmd(W32(offset), j), buf_null, len) = << >>
                    THEN -1 ELSE 0,
        address |-> W32(offset),
        txs     |-> SendTx(SpinorCmd(W32(offset), j), buf_null, len) ] :
      j \in UninitBytes }

\* read_array(): the possible outcomes [r, address, txs]
read_array(d, offset, len, buf_null) ==
    IF d.is_spinor = 0
    THEN dataflash_read_array(d, offset, len, buf_null)
    ELSE spinor_read_array(d, offset, len, buf_null)

\* As update_image_length, the result of read_array not tested
update_image_length_Unchecked(d, offset, dest_null, flag, parsed, blob_ok, blob_size) ==
    { [ r   |-> IF flag = "KERNEL_IMAGE" THEN parsed
                ELSE IF blob_ok THEN blob_size
                ELSE -1,
        txs |-> out.txs,
        parsers |->
            IF flag = "KERNEL_IMAGE" THEN << "kernel_size" >>
            ELSE IF blob_ok
                 THEN << "check_dt_blob_valid", "of_get_dt_total_size" >>
                 ELSE << "check_dt_blob_valid" >> ] :
      out \in read_array(d, offset, d.page_size, dest_null) }

\* update_image_length(): the possible outcomes [r, txs, parsers]; parsers
\* are the external functions called, in order; parsed is what
\* kernel_size() returns, blob_ok whether check_dt_blob_valid() returns 0,
\* blob_size what of_get_dt_total_size() returns
update_image_length(d, offset, dest_null, flag, parsed, blob_ok, blob_size) ==
    { [ r   |-> IF out.r # 0 THEN -1
                ELSE IF flag = "KERNEL_IMAGE" THEN parsed
                ELSE IF blob_ok THEN blob_size
                ELSE -1,
        txs |-> out.txs,
        parsers |->
            IF out.r # 0 THEN << >>
            ELSE IF flag = "KERNEL_IMAGE" THEN << "kernel_size" >>
            ELSE IF blob_ok
                 THEN << "check_dt_blob_valid", "of_get_dt_total_size" >>
                 ELSE << "check_dt_blob_valid" >> ] :
      out \in read_array(d, offset, d.page_size, dest_null) }

(***************************************************************************)
(* The recovery engine                                                     *)
(***************************************************************************)
\* df_read_status_at25(), at25_cmd_write_enbale(),
\* at25_cmd_write_status_register(status) as bus transactions
TxReadStatusAt25 == Tx(<< CMD_READ_STATUS_AT25 >>, 1)
TxWriteEnable == Tx(<< CMD_WRITE_ENABLE_AT25 >>, 0)
TxWriteStatus(status) == Tx(<< CMD_WRITE_STATUS_AT25, status >>, 0)
TxErasePageAt45 == Tx(<< CMD_ERASE_PAGE_AT45, 0, 0, 0 >>, 0)
TxEraseBlock4k == Tx(<< CMD_ERASE_BLOCK4K_AT25, 0, 0, 0 >>, 0)

\* As at25_unprotect, the locked protection registers not unlocked first
at25_unprotect_NoUnlock(s1, s2) ==
    IF BitAnd(s1, STATUS_SWP_AT25) = 0
    THEN [ r |-> 0, txs |-> << TxReadStatusAt25 >> ]
    ELSE [ r   |-> IF BitAnd(s2, STATUS_SPRL_AT25 + STATUS_SWP_AT25) # 0
                   THEN -1 ELSE 0,
           txs |-> << TxReadStatusAt25, TxWriteEnable, TxWriteStatus(0),
                      TxReadStatusAt25 >> ]

\* at25_unprotect(): [r, txs] when the two status reads deliver s1 and s2
at25_unprotect(s1, s2) ==
    IF BitAnd(s1, STATUS_SWP_AT25) = 0
    THEN [ r |-> 0, txs |-> << TxReadStatusAt25 >> ]
    ELSE [ r   |-> IF BitAnd(s2, STATUS_SPRL_AT25 + STATUS_SWP_AT25) # 0
                   THEN -1 ELSE 0,
           txs |-> << TxReadStatusAt25 >>
                   \o (IF BitAnd(s1, STATUS_SPRL_AT25) # 0
                       THEN << TxWriteEnable, TxWriteStatus(0) >>
                       ELSE << >>)
                   \o << TxWriteEnable, TxWriteStatus(0), TxReadStatusAt25 >> ]

\* As RecoveryRequested, the pin not tested
RecoveryRequested_Always(pin) == TRUE

\* dataflash_recovery(): is the erase requested for this pin value
RecoveryRequested(pin) == pin = 0

\* dataflash_recovery(): does the part take the AT25 erase sequence
UsesAt25Erase(d) ==
    d.family = DF_FAMILY_AT26F \/ d.family = DF_FAMILY_AT26DF

(***************************************************************************)
(* spi_flash_loadimage()                                                   *)
(***************************************************************************)
\* Link addresses of spi_nor_ids[] (SRAM at 0x300000)
TableBases == { 3181084, 3181088 }

\* What the uninitialised df_descriptor holds on entry
StackDescs ==
    { ZeroDesc,
      [ family |-> 32, pages |-> 70000, page_size |-> 3, page_offset |-> 40,
        is_power_2 |-> 1, is_spinor |-> 1 ] }

\* Answers of the part to "read device ID"
DevIds ==
    { << 239, 112, 24, 0, 0 >>,       \* ef 70 18 00 00  w25q128jv
      << 239, 64, 24, 0, 0 >>,        \* ef 40 18 00 00  w25q128
      << 32, 186, 25, 16, 68 >>,      \* 20 ba 19 10 44  mt25ql256a/n25q256a
      << 32, 187, 34, 0, 0 >>,        \* 20 bb 22 00 00  mt25qu02g
      << 31, 71, 0, 0, 0 >>,          \* 1f 47 00 00 00  at26df321
      << 31, 34, 0, 1, 0 >>,          \* 1f 22 00 01 00  at45db011d
      << 31, 36, 0, 0, 0 >>,          \* 1f 24 00 00 00  an AT45 not listed
      << 31, 134, 0, 0, 0 >>,         \* 1f 86 00 00 00  family 0x80
      << 31, 72, 0, 0, 0 >>,          \* 1f 48 00 00 00  an AT26DF not listed
      << 31, 4, 0, 0, 0 >>,           \* 1f 04 00 00 00  an AT26F not listed
      << 1, 2, 32, 77, 1 >>,          \* 01 02 20 4d 01  vendor not listed
      << 0, 0, 0, 0, 0 >>,            \* no answer, line low
      << 255, 255, 255, 255, 255 >> } \* no answer, line high

\* The byte on the stack behind dev_id[4]
BehindBytes == { 0, 159 }

\* Status bytes the part may deliver
StatusBytes == { 0, 1, 4, 12, 128, 140 }

\* Source offsets, results of the header parsers
Offsets == { 0, 270, 33792 }
ParsedSizes == { -1, 0, 4096 }
BlobSizes == { 0, 1024 }

Init ==
    /\ pc = "start"
    /\ df_desc \in StackDescs
    /\ dev_id = << >>
    /\ calls = << >>
    /\ pin_value = -1
    /\ timeout = 0
    /\ image = [ offset |-> 0, dest_null |-> FALSE, length |-> 0,
                 of_offset |-> 0, of_dest_null |-> FALSE, of_length |-> 0 ]
    /\ ret = 0
    /\ spi_enabled = FALSE
    /\ log = << >>
    /\ polls = 0
    /\ cfg \in [ recovery : BOOLEAN, base : TableBases ]
    /\ fn = [ op |-> "none" ]
    /\ erase_status = 0
    /\ bus = << >>
    /\ send = [ op |-> "none" ]

\* As LoadStart, the descriptor not zeroed
LoadStart_NoMemset ==
    /\ pc = "start"
    /\ \E init_ret \in { 0, -1 } :
          IF init_ret # 0
          THEN /\ ret' = -1
               /\ pc' = "done"
               /\ spi_enabled' = spi_enabled
          ELSE /\ ret' = init_ret
               /\ pc' = "probe"
               /\ spi_enabled' = TRUE
    /\ UNCHANGED << df_desc, dev_id, calls, timeout, image, log, polls,
                    cfg, fn, pin_value, erase_status, bus, send >>

\* memset, at91_spi0_hw_init, at91_spi_init, at91_spi_enable
LoadStart ==
    /\ pc = "start"
    /\ df_desc' = ZeroDesc
    /\ \E init_ret \in { 0, -1 } :
          IF init_ret # 0
          THEN /\ ret' = -1
               /\ pc' = "done"
               /\ spi_enabled' = spi_enabled
          ELSE /\ ret' = init_ret
               /\ pc' = "probe"
               /\ spi_enabled' = TRUE
    /\ UNCHANGED << dev_id, calls, timeout, image, log, polls,
                    cfg, fn, pin_value, erase_status, bus, send >>

\* As AfterProbe, the value of the probe not tested
AfterProbe_Unchecked(r) ==
    [ pc  |-> IF cfg.recovery THEN "recovery" ELSE "kernel_length",
      ret |-> r ]

\* Where spi_flash_loadimage goes with the value the probe returned
AfterProbe(r) ==
    IF r # 0 THEN [ pc |-> "err_exit", ret |-> -1 ]
    ELSE [ pc  |-> IF cfg.recovery THEN "recovery" ELSE "kernel_length",
           ret |-> r ]

\* ret = dataflash_probe_atmel(df_desc); if (ret) goto err_exit
Probe ==
    /\ pc = "probe"
    /\ \E id \in DevIds, behind \in BehindBytes :
          LET res == dataflash_probe_atmel(df_desc, id, behind, cfg.base)
          IN  /\ dev_id' = id
              /\ log' = log \o SendTx(<< CMD_READ_DEV_ID >>, FALSE, DevIdLen)
              /\ df_desc' = res.d
              /\ calls' = Append(calls,
                     Returned("dataflash_probe_atmel", res.r, Len(log) + 1))
              /\ pc' = AfterProbe(res.r).pc
              /\ ret' = AfterProbe(res.r).ret
    /\ UNCHANGED << timeout, image, spi_enabled, polls, cfg, fn, pin_value,
                    erase_status, bus, send >>

\* As AfterRecovery, the load going on after a completed erase
AfterRecovery_Continue(r) ==
    [ pc |-> "kernel_length", ret |-> ret ]

\* Where spi_flash_loadimage goes with the value dataflash_recovery returned:
\* if (!dataflash_recovery(df_desc)) { ret = -2; goto err_exit; }
AfterRecovery(r) ==
    IF r = 0 THEN [ pc |-> "err_exit", ret |-> -2 ]
    ELSE [ pc |-> "kernel_length", ret |-> ret ]

\* dataflash_recovery() returns r to spi_flash_loadimage
ReturnFromRecovery(r, n) ==
    /\ calls' = Append(calls, Returned("dataflash_recovery", r, n))
    /\ pc' = AfterRecovery(r).pc
    /\ ret' = AfterRecovery(r).ret

\* dataflash_recovery(): the button test and the choice of the erase variant
Recovery ==
    /\ pc = "recovery"
    /\ \E pin \in { 0, 1 } :
          /\ pin_value' = pin
          /\ IF RecoveryRequested(pin)
             THEN /\ pc' = IF UsesAt25Erase(df_desc)
                           THEN "at25_unprotect" ELSE "at45_erase"
                  /\ UNCHANGED << calls, ret >>
             ELSE ReturnFromRecovery(-1, Len(log) + polls)
    /\ UNCHANGED << df_desc, dev_id, timeout, image, spi_enabled,
                    log, polls, cfg, fn, erase_status, bus, send >>

\* dataflash_page0_erase_at25(): ret = at25_unprotect(); if (ret) return ret
At25Unprotect ==
    /\ pc = "at25_unprotect"
    /\ \E s1 \in StatusBytes, s2 \in StatusBytes :
          LET res == at25_unprotect(s1, s2)
              n == Len(log) + Len(res.txs)
              cs == Append(calls, Returned("at25_unprotect", res.r, n))
          IN  /\ log' = log \o res.txs
              /\ IF res.r # 0
                 THEN /\ calls' = Append(cs,
                             Returned("dataflash_recovery", res.r, n))
                      /\ pc' = AfterRecovery(res.r).pc
                      /\ ret' = AfterRecovery(res.r).ret
                 ELSE /\ pc' = "at25_erase"
                      /\ calls' = cs
                      /\ UNCHANGED ret
    /\ UNCHANGED << df_desc, dev_id, timeout, image, spi_enabled,
                    polls, cfg, fn, pin_value, erase_status, bus, send >>

\* As At25Erase, the erase command not armed by a write enable
At25Erase_NotArmed ==
    /\ pc = "at25_erase"
    /\ log' = Append(log, TxEraseBlock4k)
    /\ timeout' = PollTimeout
    /\ pc' = "at25_poll"
    /\ UNCHANGED << df_desc, dev_id, calls, image, ret, spi_enabled,
                    polls, cfg, fn, pin_value, erase_status, bus, send >>

\* dataflash_page0_erase_at25(): write enable, block erase, udelay
At25Erase ==
    /\ pc = "at25_erase"
    /\ log' = log \o << TxWriteEnable, TxEraseBlock4k >>
    /\ timeout' = PollTimeout
    /\ pc' = "at25_poll"
    /\ UNCHANGED << df_desc, dev_id, calls, image, ret, spi_enabled,
                    polls, cfg, fn, pin_value, erase_status, bus, send >>

\* As At25PollTurn, the counter reloaded when it runs out
At25PollTurn_Reloading(st, t) ==
    IF BitAnd(st, STATUS_READY_AT25) = 0
    THEN [ again |-> FALSE, timeout |-> t, r |-> IF t = 0 THEN -1 ELSE 0 ]
    ELSE IF t - 1 # 0
         THEN [ again |-> TRUE, timeout |-> t - 1, r |-> 0 ]
         ELSE [ again |-> TRUE, timeout |-> PollTimeout, r |-> 0 ]

\* As At25PollTurn, the bound tested before the decrement: while (timeout--)
At25PollTurn_TestFirst(st, t) ==
    IF BitAnd(st, STATUS_READY_AT25) = 0
    THEN [ again |-> FALSE, timeout |-> t, r |-> IF t = 0 THEN -1 ELSE 0 ]
    ELSE IF t - 1 > 1
         THEN [ again |-> TRUE, timeout |-> t - 1, r |-> 0 ]
         ELSE [ again |-> FALSE, timeout |-> 0, r |-> -1 ]

\* dataflash_page0_erase_at25(): one turn of do { } while (--timeout) that
\* read the status st with timeout = t, and the test of timeout behind the
\* loop
At25PollTurn(st, t) ==
    IF BitAnd(st, STATUS_READY_AT25) = 0
    THEN [ again |-> FALSE, timeout |-> t, r |-> IF t = 0 THEN -1 ELSE 0 ]
    ELSE IF t - 1 # 0
         THEN [ again |-> TRUE, timeout |-> t - 1, r |-> 0 ]
         ELSE [ again |-> FALSE, timeout |-> 0, r |-> -1 ]

\* dataflash_page0_erase_at25(): the polling loop, one status read a step
At25Poll ==
    /\ pc = "at25_poll"
    /\ polls' = polls + 1
    /\ \E st \in StatusBytes :
          LET turn == At25PollTurn(st, timeout)
          IN  /\ erase_status' = st
              /\ timeout' = turn.timeout
              /\ IF turn.again
                 THEN UNCHANGED << pc, calls, ret >>
                 ELSE ReturnFromRecovery(turn.r, Len(log) + polls + 1)
    /\ UNCHANGED << df_desc, dev_id, image, spi_enabled, log,
                    cfg, fn, pin_value, bus, send >>

\* As At45PollTurn, a ready bit read in the last turn taken for a timeout
At45PollTurn_BoundOnly(st, t) ==
    IF BitAnd(st, STATUS_READY_AT45) # 0
    THEN [ again |-> FALSE, timeout |-> t, r |-> IF t = 1 THEN -1 ELSE 0 ]
    ELSE IF t - 1 # 0
         THEN [ again |-> TRUE, timeout |-> t - 1, r |-> 0 ]
         ELSE [ again |-> FALSE, timeout |-> 0, r |-> -1 ]

\* dataflash_page0_erase_at45(): one turn of do { } while (--timeout) that
\* read the status st with timeout = t, and the test of status behind the
\* loop
At45PollTurn(st, t) ==
    IF BitAnd(st, STATUS_READY_AT45) # 0
    THEN [ again |-> FALSE, timeout |-> t, r |-> 0 ]
    ELSE IF t - 1 # 0
         THEN [ again |-> TRUE, timeout |-> t - 1, r |-> 0 ]
         ELSE [ again |-> FALSE, timeout |-> 0, r |-> -1 ]

\* As At45Erase, the erase command armed by a write enable
At45Erase_Armed ==
    /\ pc = "at45_erase"
    /\ log' = log \o << TxWriteEnable, TxErasePageAt45 >>
    /\ timeout' = PollTimeout
    /\ pc' = "at45_poll"
    /\ UNCHANGED << df_desc, dev_id, calls, image, ret,
                    spi_enabled, polls, cfg, fn, pin_value,
                    erase_status, bus, send >>

\* dataflash_page0_erase_at45(): page erase, udelay
At45Erase ==
    /\ pc = "at45_erase"
    /\ log' = Append(log, TxErasePageAt45)
    /\ timeout' = PollTimeout
    /\ pc' = "at45_poll"
    /\ UNCHANGED << df_desc, dev_id, calls, image, ret,
                    spi_enabled, polls, cfg, fn, pin_value,
                    erase_status, bus, send >>

\* dataflash_page0_erase_at45(): the polling loop, one status read a step
At45Poll ==
    /\ pc = "at45_poll"
    /\ polls' = polls + 1
    /\ \E st \in StatusBytes :
          LET turn == At45PollTurn(st, timeout)
          IN  /\ erase_status' = st
              /\ timeout' = turn.timeout
              /\ IF turn.again
                 THEN UNCHANGED << pc, calls, ret >>
                 ELSE ReturnFromRecovery(turn.r, Len(log) + polls + 1)
    /\ UNCHANGED << df_desc, dev_id, image, spi_enabled, log,
                    cfg, fn, pin_value, bus, send >>

\* As AfterLength, a failure taken for a length
AfterLength_Unchecked(length, next) ==
    [ pc |-> next, ret |-> ret ]

\* Where spi_flash_loadimage goes with the value update_image_length
\* returned: if (length == -1) return -1
AfterLength(length, next) ==
    IF length = -1 THEN [ pc |-> "done", ret |-> -1 ]
    ELSE [ pc |-> next, ret |-> ret ]

\* Where spi_flash_loadimage goes with the value read_array returned:
\* if (ret) { ret = -1; goto err_exit; }
AfterCopy(r, next) ==
    IF r # 0 THEN [ pc |-> "err_exit", ret |-> -1 ]
    ELSE [ pc |-> next, ret |-> r ]

\* length = update_image_length(df_desc, image->offset, image->dest,
\* KERNEL_IMAGE); image->length = length
KernelLength ==
    /\ pc = "kernel_length"
    /\ \E offset \in Offsets, dest_null \in BOOLEAN, parsed \in ParsedSizes :
       \E out \in update_image_length(df_desc, offset, dest_null,
                                      "KERNEL_IMAGE", parsed, FALSE, 0) :
          /\ log' = log \o out.txs
          /\ calls' = Append(calls,
                 Returned("update_image_length(KERNEL_IMAGE)", out.r,
                          Len(log) + Len(out.txs) + polls))
          /\ image' = [image EXCEPT !.offset = offset,
                                    !.dest_null = dest_null,
                                    !.length = IF out.r = -1 THEN @ ELSE out.r]
          /\ pc' = AfterLength(out.r, "kernel_copy").pc
          /\ ret' = AfterLength(out.r, "kernel_copy").ret
    /\ UNCHANGED << df_desc, dev_id, timeout, spi_enabled, polls, cfg,
                    fn, pin_value, erase_status, bus, send >>

\* ret = read_array(df_desc, image->offset, image->length, image->dest)
KernelCopy ==
    /\ pc = "kernel_copy"
    /\ \E out \in read_array(df_desc, image.offset, image.length,
                             image.dest_null) :
          /\ log' = log \o out.txs
          /\ calls' = Append(calls,
                 Returned("read_array(kernel)", out.r,
                          Len(log) + Len(out.txs) + polls))
          /\ pc' = AfterCopy(out.r, "dt_length").pc
          /\ ret' = AfterCopy(out.r, "dt_length").ret
    /\ UNCHANGED << df_desc, dev_id, timeout, image, spi_enabled, polls,
                    cfg, fn, pin_value, erase_status, bus, send >>

\* length = update_image_length(df_desc, image->of_offset, image->of_dest,
\* DT_BLOB); image->of_length = length
DtLength ==
    /\ pc = "dt_length"
    /\ \E offset \in Offsets, dest_null \in BOOLEAN, blob_ok \in BOOLEAN,
          blob_size \in BlobSizes :
       \E out \in update_image_length(df_desc, offset, dest_null,
                                      "DT_BLOB", 0, blob_ok, blob_size) :
          /\ log' = log \o out.txs
          /\ calls' = Append(calls,
                 Returned("update_image_length(DT_BLOB)", out.r,
                          Len(log) + Len(out.txs) + polls))
          /\ image' = [image EXCEPT !.of_offset = offset,
                                    !.of_dest_null = dest_null,
                                    !.of_length =
                                        IF out.r = -1 THEN @ ELSE out.r]
          /\ pc' = AfterLength(out.r, "dt_copy").pc
          /\ ret' = AfterLength(out.r, "dt_copy").ret
    /\ UNCHANGED << df_desc, dev_id, timeout, spi_enabled, polls, cfg,
                    fn, pin_value, erase_status, bus, send >>

\* ret = read_array(df_desc, image->of_offset, image->of_length,
\* image->of_dest)
DtCopy ==
    /\ pc = "dt_copy"
    /\ \E out \in read_array(df_desc, image.of_offset, image.of_length,
                             image.of_dest_null) :
          /\ log' = log \o out.txs
          /\ calls' = Append(calls,
                 Returned("read_array(dt)", out.r,
                          Len(log) + Len(out.txs) + polls))
          /\ pc' = AfterCopy(out.r, "err_exit").pc
          /\ ret' = AfterCopy(out.r, "err_exit").ret
    /\ UNCHANGED << df_desc, dev_id, timeout, image, spi_enabled, polls,
                    cfg, fn, pin_value, erase_status, bus, send >>

\* err_exit: at91_spi_disable(); return ret
ErrExit ==
    /\ pc = "err_exit"
    /\ spi_enabled' = FALSE
    /\ pc' = "done"
    /\ UNCHANGED << df_desc, dev_id, calls, timeout, image, ret, log, polls,
                    cfg, fn, pin_value, erase_status, bus, send >>

Next ==
    \/ LoadStart
    \/ Probe
    \/ Recovery
    \/ At25Unprotect
    \/ At25Erase
    \/ At25Poll
    \/ KernelLength
    \/ KernelCopy
    \/ DtLength
    \/ DtCopy
    \/ ErrExit

Spec == Init /\ [][Next]_vars

(***************************************************************************)
(* SpecFn: the helper functions applied to inputs from bounded sets        *)
(***************************************************************************)
\* Descriptors handed to read_array()
FnDescs ==
    [ family      : { 0 },
      pages       : { 256, 8192, 16384, 16385, 32768 },
      page_size   : { 256, 264, 1056 },
      page_offset : { 0, 9, 11 },
      is_power_2  : { 0, 1 },
      is_spinor   : { 0, 1 } ] \cup { ZeroDesc }

\* Logical offsets handed to read_array()
FnOffsets == { 0, 6, 270, 65541, 16777486 }

\* Vendor bytes dev_id[0] and family codes dev_id[1] & 0xe0
FnVendors == { 1, 31, 32, 239, 255 }
FnFamilies == { 0, 32, 64, 96, 160, 224 }

\* AT45 status bytes: every density code, both page-size bits, ready
FnStatus == { 128 + 4 * dens + pbit : dens \in 0..15, pbit \in { 0, 1 } }

InitFn ==
    /\ pc = "fn"
    /\ df_desc \in FnDescs
    /\ dev_id = << >>
    /\ calls = << >>
    /\ pin_value = -1
    /\ timeout = 0
    /\ image = [ offset |-> 0, dest_null |-> FALSE, length |-> 0,
                 of_offset |-> 0, of_dest_null |-> FALSE, of_length |-> 0 ]
    /\ ret = 0
    /\ spi_enabled = TRUE
    /\ log = << >>
    /\ polls = 0
    /\ cfg \in [ recovery : { TRUE }, base : TableBases ]
    /\ fn = [ op |-> "none" ]
    /\ erase_status = 0
    /\ bus = << >>
    /\ send = [ op |-> "none" ]

\* read_array(df_desc, offset, len, buf)
FnReadArray ==
    /\ pc = "fn"
    /\ df_desc.page_size # 0
    /\ \E offset \in FnOffsets, len \in { 0, 256 }, buf_null \in BOOLEAN :
       \E out \in read_array(df_desc, offset, len, buf_null) :
          /\ fn' = [ op |-> "read_array", offset |-> offset, len |-> len,
                     buf_null |-> buf_null, r |-> out.r,
                     address |-> out.address ]
          /\ log' = out.txs
    /\ pc' = "fn_done"
    /\ UNCHANGED << df_desc, dev_id, calls, pin_value, timeout, image, ret,
                    spi_enabled, polls, cfg, erase_status, bus, send >>

\* df_desc_init(df_desc, vendor, family) on the zeroed descriptor
FnDescInit ==
    /\ pc = "fn"
    /\ df_desc = ZeroDesc
    /\ \E vendor \in FnVendors, family \in FnFamilies, status \in FnStatus :
          LET res == df_desc_init(df_desc, vendor, family, status)
          IN  /\ fn' = [ op |-> "df_desc_init", vendor |-> vendor,
                         family |-> family, status |-> status, r |-> res.r ]
              /\ df_desc' = res.d
              /\ log' = res.txs
    /\ pc' = "fn_done"
    /\ UNCHANGED << dev_id, calls, pin_value, timeout, image, ret,
                    spi_enabled, polls, cfg, erase_status, bus, send >>

\* dataflash_probe_atmel(df_desc) on the zeroed descriptor
FnProbe ==
    /\ pc = "fn"
    /\ df_desc = ZeroDesc
    /\ \E id \in DevIds, behind \in BehindBytes :
          LET res == dataflash_probe_atmel(df_desc, id, behind, cfg.base)
          IN  /\ fn' = [ op |-> "dataflash_probe_atmel", r |-> res.r ]
              /\ dev_id' = id
              /\ df_desc' = res.d
              /\ log' = SendTx(<< CMD_READ_DEV_ID >>, FALSE, DevIdLen)
    /\ pc' = "fn_done"
    /\ UNCHANGED << calls, pin_value, timeout, image, ret, spi_enabled,
                    polls, cfg, erase_status, bus, send >>

\* at25_unprotect() on a part whose status reads deliver s1, then s2
FnUnprotect ==
    /\ pc = "fn"
    /\ df_desc = ZeroDesc
    /\ \E s1 \in StatusBytes, s2 \in StatusBytes :
          LET res == at25_unprotect(s1, s2)
          IN  /\ fn' = [ op |-> "at25_unprotect", s1 |-> s1, s2 |-> s2,
                         r |-> res.r ]
              /\ log' = res.txs
    /\ pc' = "fn_done"
    /\ UNCHANGED << df_desc, dev_id, calls, pin_value, timeout, image, ret,
                    spi_enabled, polls, cfg, erase_status, bus, send >>

\* update_image_length(df_desc, offset, dest, flag)
FnLength ==
    /\ pc = "fn"
    /\ df_desc.page_size # 0
    /\ \E offset \in FnOffsets, dest_null \in BOOLEAN,
          flag \in { "KERNEL_IMAGE", "DT_BLOB" }, parsed \in ParsedSizes,
          blob_ok \in BOOLEAN, blob_size \in BlobSizes :
       \E out \in update_image_length(df_desc, offset, dest_null, flag,
                                      parsed, blob_ok, blob_size) :
          /\ fn' = [ op |-> "update_image_length", offset |-> offset,
                     dest_null |-> dest_null, flag |-> flag,
                     parsed |-> parsed, blob_ok |-> blob_ok,
                     blob_size |-> blob_size, r |-> out.r,
                     parsers |-> out.parsers ]
          /\ log' = out.txs
    /\ pc' = "fn_done"
    /\ UNCHANGED << df_desc, dev_id, calls, pin_value, timeout, image, ret,
                    spi_enabled, polls, cfg, erase_status, bus, send >>

NextFn ==
    \/ FnLength
    \/ FnReadArray
    \/ FnDescInit
    \/ FnProbe
    \/ FnUnprotect

SpecFn == InitFn /\ [][NextFn]_vars

(***************************************************************************)
(* SpecRec: dataflash_recovery() applied to descriptors of every family    *)
(***************************************************************************)
\* Descriptors handed to dataflash_recovery()
RecDescs == { [ZeroDesc EXCEPT !.family = f] : f \in FnFamilies }

InitRec ==
    /\ pc = "recovery"
    /\ df_desc \in RecDescs
    /\ dev_id = << >>
    /\ calls = << >>
    /\ pin_value = -1
    /\ timeout = 0
    /\ image = [ offset |-> 0, dest_null |-> FALSE, length |-> 0,
                 of_offset |-> 0, of_dest_null |-> FALSE, of_length |-> 0 ]
    /\ ret = 0
    /\ spi_enabled = TRUE
    /\ log = << >>
    /\ polls = 0
    /\ cfg \in [ recovery : { TRUE }, base : TableBases ]
    /\ fn = [ op |-> "none" ]
    /\ erase_status = 0
    /\ bus = << >>
    /\ send = [ op |-> "none" ]

NextRec ==
    \/ Recovery
    \/ At25Unprotect
    \/ At25Erase
    \/ At25Poll
    \/ At45Erase
    \/ At45Poll

SpecRec == InitRec /\ [][NextRec]_vars

\* dataflash_recovery() runs on: the boot code is the only thread, nothing
\* preempts it for good
FairSpecRec == SpecRec /\ WF_vars(NextRec)

(***************************************************************************)
(* SpecSend: df_send_command() step by step on the SPI controller          *)
(***************************************************************************)
\* Longest command and data buffers, number of calls
MaxCmdLen == 3
MaxDataLen == 2
MaxSendCalls == 2

\* A call made to the SPI controller; kind and i name the buffer element
\* written from or read into
BusCall(f, kind, i) == [ f |-> f, kind |-> kind, i |-> i ]

\* As DataLoopRuns, the bound included
DataLoopRuns_Inclusive(i, data_len) == i <= data_len

\* for (i = 0; i < cmd_len; i++), for (i = 0; i < data_len; i++)
CmdLoopRuns(i, cmd_len) == i < cmd_len
DataLoopRuns(i, data_len) == i < data_len

InitSend ==
    /\ pc = "send_idle"
    /\ df_desc = ZeroDesc
    /\ dev_id = << >>
    /\ calls = << >>
    /\ pin_value = -1
    /\ timeout = 0
    /\ image = [ offset |-> 0, dest_null |-> FALSE, length |-> 0,
                 of_offset |-> 0, of_dest_null |-> FALSE, of_length |-> 0 ]
    /\ ret = 0
    /\ spi_enabled = TRUE
    /\ log = << >>
    /\ polls = 0
    /\ cfg \in [ recovery : { TRUE }, base : TableBases ]
    /\ fn = [ op |-> "none" ]
    /\ erase_status = 0
    /\ bus = << >>
    /\ send = [ op |-> "none" ]

\* A caller enters df_send_command(cmd, cmd_len, data, data_len)
SendCall ==
    /\ pc = "send_idle"
    /\ Len(calls) < MaxSendCalls
    /\ \E cmd_null \in BOOLEAN, cmd_len \in 0..MaxCmdLen,
          data_null \in BOOLEAN, data_len \in 0..MaxDataLen :
          send' = [ op |-> "df_send_command", cmd_null |-> cmd_null,
                    cmd_len |-> cmd_len, data_null |-> data_null,
                    data_len |-> data_len, i |-> 0, base |-> Len(bus) ]
    /\ pc' = "send_check"
    /\ UNCHANGED << df_desc, dev_id, calls, pin_value, timeout, image, ret,
                    spi_enabled, log, polls, cfg, fn, erase_status, bus >>

\* The three argument tests, then at91_spi_cs_activate()
SendCheck ==
    /\ pc = "send_check"
    /\ IF df_send_command(send.cmd_null, send.cmd_len,
                          send.data_null, send.data_len) # 0
       THEN /\ calls' = Append(calls,
                   Returned("df_send_command", -1, Len(bus)))
            /\ pc' = "send_idle"
            /\ UNCHANGED bus
       ELSE /\ bus' = Append(bus, BusCall("at91_spi_cs_activate", "", 0))
            /\ pc' = "send_read_sr"
            /\ UNCHANGED calls
    /\ UNCHANGED << df_desc, dev_id, pin_value, timeout, image, ret,
                    spi_enabled, log, polls, cfg, fn, erase_status, send >>

\* at91_spi_read_sr(), i = 0
SendReadSr ==
    /\ pc = "send_read_sr"
    /\ bus' = Append(bus, BusCall("at91_spi_read_sr", "", 0))
    /\ send' = [send EXCEPT !.i = 0]
    /\ pc' = "send_cmd"
    /\ UNCHANGED << df_desc, dev_id, calls, pin_value, timeout, image, ret,
                    spi_enabled, log, polls, cfg, fn, erase_status >>

\* One turn of the command loop: at91_spi_write_data(*cmd++),
\* at91_spi_read_spi(); behind the loop, i = 0
SendCmdByte ==
    /\ pc = "send_cmd"
    /\ IF CmdLoopRuns(send.i, send.cmd_len)
       THEN /\ bus' = bus \o
                   << BusCall("at91_spi_write_data", "cmd", send.i),
                      BusCall("at91_spi_read_spi", "", 0) >>
            /\ send' = [send EXCEPT !.i = @ + 1]
            /\ UNCHANGED pc
       ELSE /\ send' = [send EXCEPT !.i = 0]
            /\ pc' = "send_data"
            /\ UNCHANGED bus
    /\ UNCHANGED << df_desc, dev_id, calls, pin_value, timeout, image, ret,
                    spi_enabled, log, polls, cfg, fn, erase_status >>

\* One turn of the data loop: at91_spi_write_data(0),
\* *data++ = at91_spi_read_spi()
SendDataByte ==
    /\ pc = "send_data"
    /\ IF DataLoopRuns(send.i, send.data_len)
       THEN /\ bus' = bus \o
                   << BusCall("at91_spi_write_data", "", 0),
                      BusCall("at91_spi_read_spi", "data", send.i) >>
            /\ send' = [send EXCEPT !.i = @ + 1]
            /\ UNCHANGED pc
       ELSE /\ pc' = "send_deactivate"
            /\ UNCHANGED << bus, send >>
    /\ UNCHANGED << df_desc, dev_id, calls, pin_value, timeout, image, ret,
                    spi_enabled, log, polls, cfg, fn, erase_status >>

\* at91_spi_cs_deactivate(); return 0
SendDeactivate ==
    /\ pc = "send_deactivate"
    /\ bus' = Append(bus, BusCall("at91_spi_cs_deactivate", "", 0))
    /\ calls' = Append(calls, Returned("df_send_command", 0, Len(bus) + 1))
    /\ pc' = "send_idle"
    /\ UNCHANGED << df_desc, dev_id, pin_value, timeout, image, ret,
                    spi_enabled, log, polls, cfg, fn, erase_status, send >>

NextSend ==
    \/ SendCall
    \/ SendCheck
    \/ SendReadSr
    \/ SendCmdByte
    \/ SendDataByte
    \/ SendDeactivate

SpecSend == InitSend /\ [][NextSend]_vars

(***************************************************************************)
(* Properties                                                              *)
(***************************************************************************)
\* Transactions put on the bus so far
BusCount == Len(log) + polls

\* Indices of the returned calls of function f
CallsOf(f) == { i \in 1..Len(calls) : calls[i].f = f }

\* Table entries whose id bytes are the leading bytes of the 5-byte id
TableMatches(id) ==
    { i \in 1..Len(spi_nor_ids) :
        /\ spi_nor_ids[i].name # ""
        /\ spi_nor_ids[i].id_len \in 1..DevIdLen
        /\ \A k \in 1..spi_nor_ids[i].id_len : spi_nor_ids[i].id[k] = id[k] }

\* The address field of a read command of descriptor d, as a word
CmdAddress(d, tx) ==
    IF d.pages > AddrWidthPages
    THEN << tx.cmd[2], tx.cmd[3], tx.cmd[4], tx.cmd[5] >>
    ELSE << 0, tx.cmd[2], tx.cmd[3], tx.cmd[4] >>

RECURSIVE Pow2(_)
Pow2(n) == IF n = 0 THEN 1 ELSE 2 * Pow2(n - 1)

\* The word w is (q << s) | r, the shift taken without loss of bits
IsPagedAddress(w, q, s, r) ==
    IF q = 0 THEN w = W32(r)
    ELSE IF s >= 31 THEN FALSE
    ELSE /\ q < Pow2(31 - s)
         /\ w = OrW(ShlW(W32(q), s), W32(r))

\* C1: probing an ID whose leading bytes are those of a part-table entry
\* (ID length not 0) succeeds and leaves is_spinor = 1, pages = the
\* entry's n_sectors and page_size = the entry's page_size.
C1_TableMatchMarksSpinor ==
    \A i \in CallsOf("dataflash_probe_atmel") :
        TableMatches(dev_id) # {} =>
            /\ calls[i].r = 0
            /\ df_desc.is_spinor = 1
            /\ \E j \in TableMatches(dev_id) :
                  /\ df_desc.pages = spi_nor_ids[j].n_sectors
                  /\ df_desc.page_size = spi_nor_ids[j].page_size

\* C2: with is_spinor = 0 and is_power_2 = 0 the address in the read
\* command of offset o = q*P + r (r < P, o < pages*P) is (q << S) | r.
\* Stated of the one-page read update_image_length() issued for the kernel.
C2_PagedReadAddress ==
    ( /\ pc = "kernel_copy"
      /\ df_desc.is_spinor = 0
      /\ df_desc.is_power_2 = 0
      /\ image.offset < df_desc.pages * df_desc.page_size )
    => IsPagedAddress(CmdAddress(df_desc, log[Len(log)]),
                      image.offset \div df_desc.page_size,
                      df_desc.page_offset,
                      image.offset % df_desc.page_size)

EraseFailed(i) ==
    /\ calls[i].f = "dataflash_recovery"
    /\ pin_value = 0
    /\ calls[i].r # 0

\* C5: when the button is asserted and the erase sequence fails, the load
\* issues no transaction after the recovery engine returned, calls nothing
\* further, and returns a non-zero code.
C5_EraseFailureAborts ==
    \A i \in 1..Len(calls) :
        EraseFailed(i) =>
            /\ i = Len(calls)
            /\ BusCount = calls[i].at
            /\ (pc = "done" => ret # 0)

\* C6: when the recovery engine reports the erase completed, no call and no
\* transaction follows, the load ends with -2, and -2 is the result of no
\* other outcome.
C6_EraseDoneAborts ==
    /\ \A i \in CallsOf("dataflash_recovery") :
          calls[i].r = 0 =>
              /\ i = Len(calls)
              /\ BusCount = calls[i].at
              /\ pc \in { "err_exit", "done" }
              /\ ret = -2
    /\ ret = -2 => \E i \in CallsOf("dataflash_recovery") : calls[i].r = 0

\* The load returned -2 after an erase that was polled more than once
C6_Witness ==
    /\ pc = "done"
    /\ ret = -2
    /\ polls > 1
    /\ \E i \in CallsOf("dataflash_recovery") : calls[i].r = 0

\* C7: when the pin does not read 0, dataflash_recovery returns -1 without
\* a transaction, and the load stands where a build without the recovery
\* engine stands after the probe: about to resolve the kernel length, with
\* only the ID read on the bus.
C7_NotRequestedIsNoOp ==
    /\ \A i \in CallsOf("dataflash_recovery") :
          pin_value # 0 =>
              /\ calls[i].r = -1
              /\ i > 1 /\ calls[i].at = calls[i - 1].at
              /\ i = Len(calls) =>
                    /\ pc = "kernel_length"
                    /\ ret = 0
                    /\ spi_enabled
                    /\ polls = 0
                    /\ log = << Tx(<< CMD_READ_DEV_ID >>, DevIdLen) >>
              /\ i < Len(calls) =>
                    calls[i + 1].f = "update_image_length(KERNEL_IMAGE)"
    /\ ( /\ ~ cfg.recovery
         /\ Len(calls) = 1
         /\ calls[1].r = 0
         /\ pc # "probe" )
       => /\ pc = "kernel_length"
          /\ ret = 0
          /\ spi_enabled
          /\ polls = 0
          /\ log = << Tx(<< CMD_READ_DEV_ID >>, DevIdLen) >>

\* The button was not pressed and the kernel length has been resolved
C7_Witness ==
    /\ pin_value = 1
    /\ pc = "kernel_copy"
    /\ Len(calls) = 3
    /\ calls[2].f = "dataflash_recovery"

\* C8: when update_image_length fails for the kernel, the load returns a
\* non-zero code at once: no call and no transaction follows.
C8_KernelLengthFailureAborts ==
    \A i \in CallsOf("update_image_length(KERNEL_IMAGE)") :
        calls[i].r = -1 =>
            /\ i = Len(calls)
            /\ BusCount = calls[i].at
            /\ pc = "done"
            /\ ret # 0

\* The page was read and the header parser rejected it
C8_Witness ==
    /\ pc = "done"
    /\ Len(calls) > 1
    /\ calls[Len(calls)].f = "update_image_length(KERNEL_IMAGE)"
    /\ calls[Len(calls)].r = -1
    /\ calls[Len(calls)].at = calls[Len(calls) - 1].at + 1

\* Vendor bytes and family codes df_desc_init knows
KnownVendors ==
    { MANUFACTURER_ID_ATMEL, MANUFACTURER_ID_MICRON, MANUFACTURER_ID_WINBOND }
KnownFamilies(vendor) ==
    IF vendor = MANUFACTURER_ID_ATMEL
    THEN { DF_FAMILY_AT26F, DF_FAMILY_AT45, DF_FAMILY_AT26DF }
    ELSE IF vendor = MANUFACTURER_ID_MICRON
    THEN { DF_FAMILY_M25P, DF_FAMILY_N25Q }
    ELSE IF vendor = MANUFACTURER_ID_WINBOND
    THEN { WINBOND_W25Q128JV }
    ELSE { }

\* Density codes df_at45_desc_init decodes
SupportedDensities ==
    { DENSITY_AT45DB011D, DENSITY_AT45DB021D, DENSITY_AT45DB041D,
      DENSITY_AT45DB081D, DENSITY_AT45DB161D, DENSITY_AT45DB321D,
      DENSITY_AT45DB642D }

C10_ProbeFailureAborts ==
    \A i \in CallsOf("dataflash_probe_atmel") :
        calls[i].r # 0 =>
            /\ Len(calls) = 1
            /\ log = << Tx(<< CMD_READ_DEV_ID >>, DevIdLen) >>
            /\ polls = 0
            /\ pc \in { "err_exit", "done" }
            /\ ret # 0

\* The load ended after a failed probe of a part the table does not list
C10_Witness ==
    /\ pc = "done"
    /\ Len(calls) = 1
    /\ calls[1].r # 0
    /\ dev_id = << 31, 36, 0, 0, 0 >>

\* C11: an ID no table entry matches, with the Atmel vendor byte and family
\* code AT26F or AT26DF, is resolved by the probe to pages = 16384,
\* page_size = 256, is_power_2 = 1, the ID read being the only transaction.
C11_At26ResolvedByDispatch ==
    \A i \in CallsOf("dataflash_probe_atmel") :
        ( /\ TableMatches(dev_id) = {}
          /\ dev_id[1] = MANUFACTURER_ID_ATMEL
          /\ BitAnd(dev_id[2], 224) \in { DF_FAMILY_AT26F, DF_FAMILY_AT26DF } )
        => /\ calls[i].r = 0
           /\ calls[i].at = 1
           /\ df_desc.pages = 16384
           /\ df_desc.page_size = 256
           /\ df_desc.is_power_2 = 1

\* The AT45 status with density bits 0x14 and the page-size bit clear has
\* been decoded
Density14Decoded ==
    /\ fn.op = "df_desc_init"
    /\ fn.vendor = MANUFACTURER_ID_ATMEL
    /\ fn.family = DF_FAMILY_AT45
    /\ BitAnd(fn.status, 60) = 20
    /\ BitAnd(fn.status, STATUS_PAGE_SIZE_AT45) = 0

\* C12 as stated: density bits 0x14 with the page-size bit clear resolve to
\* pages = 512, page_size = 264, page_offset = 9, is_power_2 = 0.
C12_Density14Gives512 ==
    Density14Decoded =>
        /\ fn.r = 0
        /\ df_desc.pages = 512
        /\ df_desc.page_size = 264
        /\ df_desc.page_offset = 9
        /\ df_desc.is_power_2 = 0

\* C12 amended: density bits 0x14 with the page-size bit clear resolve to
\* pages = 1024, page_size = 264, page_offset = 9, is_power_2 = 0.
C12_Density14Gives1024 ==
    Density14Decoded =>
        /\ fn.r = 0
        /\ df_desc.pages = 1024
        /\ df_desc.page_size = 264
        /\ df_desc.page_offset = 9
        /\ df_desc.is_power_2 = 0

\* The status 0x94 (ready, density 0x14, page-size bit clear) was decoded
C12_Witness ==
    /\ Density14Decoded
    /\ fn.status = 148
    /\ Len(log) = 1

\* The AT25 erase sequence has read the status at least once
At25Polled == polls > 0 /\ UsesAt25Erase(df_desc)

\* The AT45 erase sequence has read the status at least once
At45Polled == polls > 0 /\ ~UsesAt25Erase(df_desc)

\* C13: while the AT25 erase polls, every status read so far had the busy
\* bit (bit 0) high and fewer than 1000 were made; it returns success exactly
\* when the read it made last, one of the first 1000, has the bit low, and
\* the timeout failure exactly when the 1000th read has the bit high.
C13_At25PollOutcome ==
    /\ pc = "at25_poll" /\ polls > 0
          => polls < PollTimeout /\ BitAnd(erase_status, STATUS_READY_AT25) # 0
    /\ \A i \in CallsOf("dataflash_recovery") :
          At25Polled =>
             /\ polls <= PollTimeout
             /\ calls[i].r \in { 0, -1 }
             /\ calls[i].r = 0 <=> BitAnd(erase_status, STATUS_READY_AT25) = 0
             /\ calls[i].r = -1 <=>
                   /\ polls = PollTimeout
                   /\ BitAnd(erase_status, STATUS_READY_AT25) # 0

\* The busy bit went low on the 1000th read and the erase succeeded
C13_Witness ==
    /\ At25Polled
    /\ polls = PollTimeout
    /\ BitAnd(erase_status, STATUS_READY_AT25) = 0
    /\ \E i \in CallsOf("dataflash_recovery") : calls[i].r = 0

\* C14: while the AT45 erase polls, every status read so far had the ready
\* bit (bit 7) low and fewer than 1000 were made; it returns success exactly
\* when the read it made last, one of the first 1000, has the bit high, and
\* the timeout failure exactly when the 1000th read has the bit low.
C14_At45PollOutcome ==
    /\ pc = "at45_poll" /\ polls > 0
          => polls < PollTimeout /\ BitAnd(erase_status, STATUS_READY_AT45) = 0
    /\ \A i \in CallsOf("dataflash_recovery") :
          At45Polled =>
             /\ polls <= PollTimeout
             /\ calls[i].r \in { 0, -1 }
             /\ calls[i].r = 0 <=> BitAnd(erase_status, STATUS_READY_AT45) # 0
             /\ calls[i].r = -1 <=>
                   /\ polls = PollTimeout
                   /\ BitAnd(erase_status, STATUS_READY_AT45) = 0

\* The ready bit went high on the 1000th read and the erase succeeded
C14_Witness ==
    /\ At45Polled
    /\ polls = PollTimeout
    /\ BitAnd(erase_status, STATUS_READY_AT45) # 0
    /\ \E i \in CallsOf("dataflash_recovery") : calls[i].r = 0

\* The running or last call of df_send_command is malformed: a null
\* command, a zero command length, or a data length without a data buffer
Malformed ==
    \/ send.cmd_null
    \/ send.cmd_len = 0
    \/ send.data_len # 0 /\ send.data_null

\* The running call of df_send_command has returned
SendReturned == pc = "send_idle" /\ send.op = "df_send_command"

\* What the running or last call of df_send_command did on the controller
Segment == SubSeq(bus, send.base + 1, Len(bus))

\* C15: a malformed call of df_send_command returns -1 from the argument
\* tests and makes no call to the SPI controller: no chip-select, no status
\* read, no byte shifted.
C15_MalformedTouchesNothing ==
    (send.op = "df_send_command" /\ Malformed) =>
        /\ Segment = << >>
        /\ pc \in { "send_check", "send_idle" }
        /\ SendReturned => /\ calls[Len(calls)].r = -1
                           /\ calls[Len(calls)].at = send.base

\* A call with a data length and no data buffer returned, after a call that
\* used the bus
C15_Witness ==
    /\ SendReturned
    /\ ~send.cmd_null /\ send.cmd_len > 0
    /\ send.data_null /\ send.data_len > 0
    /\ send.base > 0
    /\ calls[Len(calls)].r = -1

\* Chip-select asserts less chip-select deasserts in a sequence of
\* controller calls
RECURSIVE CsOpen(_)
CsOpen(b) ==
    IF b = << >> THEN 0
    ELSE CsOpen(SubSeq(b, 1, Len(b) - 1)) +
         ( CASE b[Len(b)].f = "at91_spi_cs_activate" -> 1
             [] b[Len(b)].f = "at91_spi_cs_deactivate" -> -1
             [] OTHER -> 0 )

\* One exchange of cmd_len command bytes and data_len data bytes:
\* chip-select, the status read, each command byte written and a byte read
\* back, each data byte clocked by a zero and stored, chip-select released
Exchange(cmd_len, data_len) ==
    << BusCall("at91_spi_cs_activate", "", 0),
       BusCall("at91_spi_read_sr", "", 0) >>
    \o [ k \in 1..(2 * cmd_len) |->
           IF k % 2 = 1
           THEN BusCall("at91_spi_write_data", "cmd", (k - 1) \div 2)
           ELSE BusCall("at91_spi_read_spi", "", 0) ]
    \o [ k \in 1..(2 * data_len) |->
           IF k % 2 = 1
           THEN BusCall("at91_spi_write_data", "", 0)
           ELSE BusCall("at91_spi_read_spi", "data", (k - 2) \div 2) ]
    \o << BusCall("at91_spi_cs_deactivate", "", 0) >>

\* C16: a well-formed call of df_send_command does, when it has returned,
\* exactly one exchange: chip-select asserted once, then the status read,
\* then cmd_len command bytes, then data_len data bytes, then chip-select
\* deasserted once; until it returns it has done a proper prefix of that
\* exchange; chip-select is deasserted whenever no call is running, and never
\* asserted twice.
C16_OneFramedExchange ==
    /\ CsOpen(bus) \in { 0, 1 }
    /\ pc = "send_idle" => CsOpen(bus) = 0
    /\ (send.op = "df_send_command" /\ ~Malformed) =>
          LET whole == Exchange(send.cmd_len, send.data_len)
          IN  IF SendReturned
              THEN /\ Segment = whole
                   /\ calls[Len(calls)].r = 0
              ELSE /\ Len(Segment) < Len(whole)
                   /\ Segment = SubSeq(whole, 1, Len(Segment))

\* Two calls with the longest command and a data buffer have returned
C16_Witness ==
    /\ SendReturned
    /\ Len(calls) = MaxSendCalls
    /\ \A i \in 1..Len(calls) : calls[i].r = 0
    /\ send.cmd_len = MaxCmdLen
    /\ send.data_len = MaxDataLen
    /\ send.base > 0

\* After the unprotect sequence that read s1 first and s2 last, the lock bit
\* or a software-protect bit is still set
ProtectionNotCleared(s1, s2) ==
    /\ BitAnd(s1, STATUS_SWP_AT25) # 0
    /\ BitAnd(s2, STATUS_SPRL_AT25 + STATUS_SWP_AT25) # 0

\* The AT25 erase gave up after 1000 status reads with the busy bit high
At25TimedOut ==
    /\ At25Polled
    /\ polls = PollTimeout
    /\ BitAnd(erase_status, STATUS_READY_AT25) # 0

\* C17: the result dataflash_recovery reports when the erase poll exhausted
\* its bound differs from the result it reports when the protection bits did
\* not clear after the unprotect sequence.
C17_TimeoutDistinctFromProtection ==
    \A i \in CallsOf("dataflash_recovery") :
        At25TimedOut =>
            \A s1 \in StatusBytes, s2 \in StatusBytes :
                ProtectionNotCleared(s1, s2) =>
                    calls[i].r # at25_unprotect(s1, s2).r

\* C18: for a part resolved through the part table with pages <= 16384, the
\* read of offset o < 2^24 is a fast read whose three address bytes are the
\* bytes of o, most significant first. Stated of the one-page read
\* update_image_length() issued for the kernel.
C18_TableMatchReadsFlat ==
    ( /\ pc = "kernel_copy"
      /\ TableMatches(dev_id) # {}
      /\ df_desc.pages <= AddrWidthPages )
    => LET tx == log[Len(log)]
       IN  /\ tx.cmd[1] = CMD_READ_ARRAY_FAST
           /\ << tx.cmd[2], tx.cmd[3], tx.cmd[4] >>
                 = << W32(image.offset)[2], W32(image.offset)[3],
                      W32(image.offset)[4] >>

\* C19: when spi_flash_loadimage has returned after at91_spi_enable(), the
\* transport is disabled again, whatever the exit taken.
C19_EveryExitDisables ==
    (pc = "done" /\ CallsOf("dataflash_probe_atmel") # {}) => ~spi_enabled

\* C20: at25_unprotect reads the status first; with both software-protect
\* bits clear it does nothing more and returns 0; otherwise it issues
\* write-enable, write-status(0) once, after one more such pair exactly when
\* SPRL was set, then reads the status again and returns -1 iff SPRL or a
\* software-protect bit is set in it, else 0; every write-status directly
\* follows a write-enable.
C20_UnprotectProtocol ==
    fn.op = "at25_unprotect" =>
        LET protected == BitAnd(fn.s1, STATUS_SWP_AT25) # 0
            locked == BitAnd(fn.s1, STATUS_SPRL_AT25) # 0
            still == BitAnd(fn.s2, STATUS_SPRL_AT25 + STATUS_SWP_AT25) # 0
            pair == << TxWriteEnable, TxWriteStatus(0) >>
        IN  /\ IF ~protected
               THEN /\ log = << TxReadStatusAt25 >>
                    /\ fn.r = 0
               ELSE /\ log = << TxReadStatusAt25 >>
                             \o (IF locked THEN pair ELSE << >>)
                             \o pair \o << TxReadStatusAt25 >>
                    /\ fn.r = IF still THEN -1 ELSE 0
            /\ \A k \in 1..Len(log) :
                  log[k].cmd[1] = CMD_WRITE_STATUS_AT25 =>
                      k > 1 /\ log[k - 1] = TxWriteEnable

\* A locked and protected part was unlocked, unprotected and read clear
C20_Witness ==
    /\ fn.op = "at25_unprotect"
    /\ BitAnd(fn.s1, STATUS_SPRL_AT25) # 0
    /\ BitAnd(fn.s1, STATUS_SWP_AT25) # 0
    /\ fn.s2 = 0
    /\ fn.r = 0
    /\ Len(log) = 6

\* Positions of the transaction tx in the log
Issued(tx) == { k \in 1..Len(log) : log[k] = tx }

\* C21: on the AT25 recovery path the block erase of address 0 is issued at
\* most once, directly after a write-enable that directly follows the return
\* of at25_unprotect with success; no status is polled before it, and after
\* a failed at25_unprotect it is never issued.
C21_At25EraseOrder ==
    /\ Cardinality(Issued(TxEraseBlock4k)) <= 1
    /\ \A k \in Issued(TxEraseBlock4k) :
          /\ k > 1
          /\ log[k - 1] = TxWriteEnable
          /\ \E i \in CallsOf("at25_unprotect") :
                calls[i].r = 0 /\ calls[i].at = k - 2
    /\ (polls > 0 /\ UsesAt25Erase(df_desc)) => Issued(TxEraseBlock4k) # {}
    /\ pc \in { "at25_unprotect", "at25_erase" } => polls = 0
    /\ \A i \in CallsOf("at25_unprotect") :
          calls[i].r # 0 => Issued(TxEraseBlock4k) = {}

\* A protected part was unprotected and erased, and the load went on to the
\* end
C21_Witness ==
    /\ pc = "done"
    /\ \E i \in CallsOf("at25_unprotect") : calls[i].r = 0 /\ calls[i].at > 2
    /\ Issued(TxEraseBlock4k) # {}
    /\ polls > 1

\* dataflash_recovery took the AT45 erase: the button is pressed and the
\* family is neither AT26F nor AT26DF
At45PathTaken == pin_value = 0 /\ ~UsesAt25Erase(df_desc)

\* C22: on the AT45 recovery path the transactions other than status polls
\* are the page erase of page 0, once and first; no write-enable, no status
\* write and no AT25 status read is issued; the status is polled only after
\* the erase command.
C22_At45EraseOnly ==
    At45PathTaken =>
        /\ log \in { << >>, << TxErasePageAt45 >> }
        /\ pc # "at45_erase" => log = << TxErasePageAt45 >>
        /\ polls > 0 => log = << TxErasePageAt45 >>
        /\ \A i \in 1..Len(calls) : calls[i].f # "at25_unprotect"

\* The AT45 erase was issued and completed after the part was busy once
C22_Witness ==
    /\ At45PathTaken
    /\ df_desc.family = DF_FAMILY_AT45
    /\ polls = 2
    /\ \E i \in CallsOf("dataflash_recovery") : calls[i].r = 0

\* An erase poll loop is running
InPoll == pc \in { "at25_poll", "at45_poll" }

\* The status read last shows the ready condition of the erase that ran
ReadyRead ==
    IF UsesAt25Erase(df_desc)
    THEN BitAnd(erase_status, STATUS_READY_AT25) = 0
    ELSE BitAnd(erase_status, STATUS_READY_AT45) # 0

\* The poll loops read the status at most 1000 times, go on only after a
\* read that was not ready, have read at least once when the erase sequence
\* has returned from them, and the erase command is on the bus once
PollBounded ==
    /\ polls <= PollTimeout
    /\ (InPoll /\ polls > 0) => (~ReadyRead /\ polls < PollTimeout)
    /\ (~InPoll /\ polls > 0) => (ReadyRead \/ polls = PollTimeout)
    /\ ( /\ ~InPoll
         /\ Issued(TxEraseBlock4k) \cup Issued(TxErasePageAt45) # {} )
       => polls >= 1
    /\ Cardinality(Issued(TxEraseBlock4k) \cup Issued(TxErasePageAt45)) <= 1

\* C23: both erase poll loops terminate whatever the status bytes are, after
\* at least one and at most 1000 status reads, stopping at the first read
\* that shows the ready condition, and the erase command is not issued again.
C23_PollsTerminate ==
    /\ []PollBounded
    /\ InPoll ~> ~InPoll

\* The AT45 erase gave up after 1000 status reads, none of them ready
C23_Witness ==
    /\ At45Polled
    /\ polls = PollTimeout
    /\ ~ReadyRead
    /\ \E i \in CallsOf("dataflash_recovery") : calls[i].r = -1

\* The family code in the device ID the part answered: dev_id[1] & 0xe0
IdFamily == BitAnd(dev_id[2], 224)

\* C24: the AT25 unprotect/block-erase sequence runs only for parts whose ID
\* says Atmel AT26F or AT26DF; a part whose ID says AT45 is never taken
\* through it.
C24_EraseMatchesFamily ==
    pc \in { "at25_unprotect", "at25_erase", "at25_poll" } =>
        /\ dev_id[1] = MANUFACTURER_ID_ATMEL
        /\ IdFamily \in { DF_FAMILY_AT26F, DF_FAMILY_AT26DF }

\* The least element of a non-empty set of table indices
First(S) == CHOOSE i \in S : \A j \in S : i <= j

\* C25: the probe resolves the device ID to the first table entry whose id
\* bytes are the leading id_len bytes of the ID, and fails when there is no
\* such entry; entries with id_len 0 and the sentinel match nothing.
C25_FirstMatchInTableOrder ==
    fn.op = "dataflash_probe_atmel" =>
        IF TableMatches(dev_id) = {}
        THEN fn.r # 0 /\ df_desc = ZeroDesc
        ELSE LET j == First(TableMatches(dev_id))
             IN  /\ fn.r = 0
                 /\ df_desc.page_offset = InfoAddress(cfg.base, j)
                 /\ df_desc.pages = spi_nor_ids[j].n_sectors
                 /\ df_desc.page_size = spi_nor_ids[j].page_size

\* The read update_image_length() asks for cannot be sent: a length and no
\* buffer
LengthReadFails == fn.dest_null /\ df_desc.page_size # 0

\* C26: update_image_length issues one read-array transaction of page_size
\* bytes, the one read_array issues for the payload's offset, then calls
\* kernel_size for a kernel, or check_dt_blob_valid and, the blob being
\* valid, of_get_dt_total_size for a device tree, and returns what the last
\* of them gave; it calls no parser and returns -1 when the read fails, and
\* returns -1 when the validator rejects the blob.
C26_OnePageThenParser ==
    fn.op = "update_image_length" =>
        IF LengthReadFails
        THEN log = << >> /\ fn.parsers = << >> /\ fn.r = -1
        ELSE /\ Len(log) = 1
             /\ log[1].cmd[1] = CMD_READ_ARRAY_FAST
             /\ log[1].data_len = df_desc.page_size
             /\ \E o \in read_array(df_desc, fn.offset, df_desc.page_size,
                                    fn.dest_null) : log = o.txs
             /\ IF fn.flag = "KERNEL_IMAGE"
                THEN fn.parsers = << "kernel_size" >> /\ fn.r = fn.parsed
                ELSE IF fn.blob_ok
                     THEN /\ fn.parsers = << "check_dt_blob_valid",
                                             "of_get_dt_total_size" >>
                          /\ fn.r = fn.blob_size
                     ELSE /\ fn.parsers = << "check_dt_blob_valid" >>
                          /\ fn.r = -1

\* The header page of a valid device tree was read from a part with
\* 264-byte pages and its size returned
C26_Witness ==
    /\ fn.op = "update_image_length"
    /\ fn.flag = "DT_BLOB"
    /\ fn.blob_ok
    /\ Len(log) = 1
    /\ df_desc.page_size = 264
    /\ fn.r = 1024

\* The probe has not run yet, or is about to
BeforeProbe == pc \in { "start", "probe" }

\* C27: the descriptor is zero when the probe starts, the probe is the only
\* step past the start that writes it, the read-device-ID transaction is
\* issued once, by the probe, and recovery, length resolution and read_array
\* leave every descriptor field as it is.
C27_DescriptorWrittenOnce ==
    /\ [](pc = "probe" => df_desc = ZeroDesc)
    /\ [](Cardinality(Issued(Tx(<< CMD_READ_DEV_ID >>, DevIdLen)))
             = IF BeforeProbe THEN 0 ELSE Cardinality(CallsOf(
                                             "dataflash_probe_atmel")))
    /\ [](Cardinality(CallsOf("dataflash_probe_atmel")) <= 1)
    /\ [][~BeforeProbe => df_desc' = df_desc]_vars

\* A load that ran recovery, both length resolutions and both copies ended
\* with the descriptor the probe wrote
C27_Witness ==
    /\ pc = "done"
    /\ ret = 0
    /\ df_desc # ZeroDesc
    /\ CallsOf("dataflash_recovery") # {}
    /\ CallsOf("read_array(dt)") # {}

\* The table entries the scan of the probe call i passed to memcmp: those
\* with an id_len up to the entry that matched, or up to the sentinel
Compared(i) ==
    LET last == IF calls[i].r = 0
                THEN CHOOSE m \in 1..Len(spi_nor_ids) :
                        InfoAddress(cfg.base, m) = df_desc.page_offset
                ELSE Len(spi_nor_ids) - 1
    IN  { j \in 1..last : spi_nor_ids[j].id_len # 0 }

\* The first n bytes of the entry j are those of the device ID
SamePrefix(j, n) == \A k \in 1..n : spi_nor_ids[j].id[k] = dev_id[k]

\* C28: no comparison of the table scan goes beyond the 5 bytes of the
\* device ID: an entry that was compared and agrees with the ID in its 5
\* first bytes is compared over at most 5 bytes.
C28_CompareWithinId ==
    \A i \in CallsOf("dataflash_probe_atmel") :
        \A j \in Compared(i) :
            LET n == spi_nor_ids[j].id_len
            IN  SamePrefix(j, IF n < DevIdLen THEN n ELSE DevIdLen)
                   => n <= DevIdLen

\* Bytes of the part the table entry j describes: n_sectors * sector_size
Capacity(j) == spi_nor_ids[j].n_sectors * spi_nor_ids[j].sector_size

\* The table entry whose address the probe left in page_offset
Resolved ==
    CHOOSE m \in 1..Len(spi_nor_ids) :
        InfoAddress(cfg.base, m) = df_desc.page_offset

\* C29: for a descriptor the probe resolved and an offset inside the part,
\* the address the read path computes fits the three address bytes emitted
\* when pages <= 16384: its top byte is 0. Stated of the one-page read
\* update_image_length() issued for the kernel.
C29_AddressFitsWidth ==
    ( /\ pc = "kernel_copy"
      /\ image.offset < Capacity(Resolved)
      /\ df_desc.pages <= AddrWidthPages )
    => \A o \in read_array(df_desc, image.offset, df_desc.page_size,
                           image.dest_null) : o.address[1] = 0

====
